---- MODULE Spec2Model ----
(***************************************************************************)
(* Model of the annotation interaction page (VideoAnnotationPage and its   *)
(* sub-views AnnotationOverlay, Sidebar, FrameViewer, NavigationBar) of    *)
(* the video annotation tool.  The component state of the page is the      *)
(* state of the model, every event handler is one action, and every        *)
(* outstanding network call is a message in flight.                        *)
(***************************************************************************)
EXTENDS Bags, FiniteSets, Integers, Sequences, TLC

\* ------------------------------------------------------------------ bounds
W == 40            \* width of the rendering surface (container.width)
MaxPolyps == 2     \* annotations held by the Store at once
MaxClock == 2      \* largest reading of Date.now()
MaxInFlight == 2   \* outstanding calls of one kind (save / load / delete)
MaxEvents == 6     \* events of the user in one run
ContainerLeft == 5 \* container.left: offset of the surface in the viewport
ContainerTop == 3  \* container.top
MaxFrame == 125    \* frames of a long video (SpecFrames)
MaxParts == 4      \* parts of a duration string, separated by colons
MaxTime == 4       \* duration of the video, in frame periods of 1/R second

H == W - 5         \* height of the rendering surface (container.height)

\* ------------------------------------------------------------- constants
Null == -1         \* JavaScript null for number | null
MinSize == 30      \* minimum edge length enforced by onResize
R == 30            \* sampling rate

NoRect == [x |-> Null, y |-> Null, width |-> Null, height |-> Null]

\* pointer positions relative to the surface (clientX - container.left): the
\* top-left pixel, one on the bottom row and one on the rightmost column
Points == { [x |-> 0, y |-> 0], [x |-> 10, y |-> H - 1], [x |-> W - 1, y |-> 10] }

FrameLists == { <<>>, <<11, 12>> }   \* answers of get_frames_path

Notes == { "n" }                     \* non-empty answers of prompt('Add note:')

\* a value of a JSON answer, by its typeof: a string is the sequence of its
\* characters
JsString(str) == [type |-> "string", value |-> str]
JsNumber(n) == [type |-> "number", value |-> n]
JsBoolean(b) == [type |-> "boolean", value |-> b]

Durations == { JsNumber(MaxTime) }   \* metadata.duration of the video shown

Min(a, b) == IF a < b THEN a ELSE b
Max(a, b) == IF a > b THEN a ELSE b
Abs(a) == IF a < 0 THEN -a ELSE a

VARIABLES
    frames, polyps, selectedPolyp,
    isResizing, isDragging, dragStart,
    isDrawing, drawingStart, currentDrawing,
    videoMetadata, loading, error,
    isFrameAnnotationMode, currentFrameIndex, saving,
    authToken, clock, pointer,
    saves, loads, deletes, framesFetch, db,
    events, last,
    isPlaying, cropStart, cropEnd, currentTime

gesture == <<isResizing, isDragging, dragStart, isDrawing, drawingStart, currentDrawing>>
\* currentTime is the playback position of the <video> of the VideoPlayer;
\* it and the crop range are counted in frame periods of 1/R second
player == <<isPlaying, cropStart, cropEnd, currentTime>>
page == <<videoMetadata, loading, player>>
mode == <<frames, isFrameAnnotationMode, currentFrameIndex>>
env == <<authToken, clock, pointer>>
net == <<saves, loads, deletes, framesFetch, db>>

vars == <<frames, polyps, selectedPolyp, isResizing, isDragging, dragStart,
          isDrawing, drawingStart, currentDrawing, videoMetadata, loading, error,
          isFrameAnnotationMode, currentFrameIndex, saving, authToken, clock,
          pointer, saves, loads, deletes, framesFetch, db, events, last,
          isPlaying, cropStart, cropEnd, currentTime>>


\* ------------------------------------------------ IEEE-754 double arithmetic
\* start_time and end_time are JavaScript numbers: binary64 values.  A double is
\* modelled as its 53 significand bits (most significant first) and the
\* exponent of the leading bit; the quotient f / 30 and the product s * 30 are
\* rounded to nearest, ties to even, as the hardware does.  Integers stay
\* below 2^31 throughout.
Prec == 53
Limb == 18         \* bits per limb of the significand in a product

DZero == [e |-> 0, m |-> <<>>]      \* the double 0
NoTime == [e |-> Null, m |-> <<>>]  \* null in a field that holds a double

Bit(n, j) == (n \div 2^j) % 2

BitLen(n) ==
    IF n = 0 THEN 0
    ELSE 1 + CHOOSE j \in 0..30 : 2^j <= n /\ (j = 30 \/ n < 2^(j + 1))

\* the k low bits of n, most significant first
LowBits(n, k) == [i \in 1..k |-> Bit(n, k - i)]

BitsOf(n) == LowBits(n, BitLen(n))

RECURSIVE BitsToInt(_)
BitsToInt(b) ==
    IF Len(b) = 0 THEN 0
    ELSE IF Len(b) = 1 THEN b[1]
    ELSE LET h == Len(b) \div 2
         IN  BitsToInt(SubSeq(b, 1, h)) * 2^(Len(b) - h)
               + BitsToInt(SubSeq(b, h + 1, Len(b)))

\* b^p mod n by repeated squaring
RECURSIVE PowMod(_, _, _)
PowMod(b, p, n) ==
    IF p = 0 THEN 1 % n
    ELSE LET h == PowMod(b, p \div 2, n)
         IN  IF p % 2 = 0 THEN (h * h) % n ELSE (((h * h) % n) * b) % n

\* b + 1 on a bit string; the result is one bit longer when every bit was 1
IncBits(b) ==
    IF \A i \in 1..Len(b) : b[i] = 1
    THEN <<1>> \o [i \in 1..Len(b) |-> 0]
    ELSE LET j == CHOOSE i \in 1..Len(b) :
                      b[i] = 0 /\ \A k \in (i + 1)..Len(b) : b[k] = 1
         IN  [i \in 1..Len(b) |-> IF i < j THEN b[i] ELSE IF i = j THEN 1 ELSE 0]

\* Round an exact value to Prec bits.  sig: the significant bits from the
\* leading 1 on (at least Prec + 1 of them), e: exponent of the leading bit,
\* sticky: whether anything non-zero lies beyond sig.
RoundToDouble(sig, e, sticky) ==
    LET kept == SubSeq(sig, 1, Prec)
        guard == sig[Prec + 1]
        rest == sticky \/ (\E i \in (Prec + 2)..Len(sig) : sig[i] = 1)
        up == guard = 1 /\ (rest \/ kept[Prec] = 1)
        inc == IncBits(kept)
    IN  IF ~up THEN [e |-> e, m |-> kept]
        ELSE IF Len(inc) = Prec THEN [e |-> e, m |-> inc]
        ELSE [e |-> e + 1, m |-> SubSeq(inc, 1, Prec)]

\* the bit of weight 2^j in the binary expansion of n / d
QuotientBit(n, d, j) ==
    IF j >= 0 THEN (IF j > 30 THEN 0 ELSE Bit(n \div d, j))
    ELSE IF ((n % (2 * d)) * PowMod(2, -j, 2 * d)) % (2 * d) >= d THEN 1 ELSE 0

\* the double nearest to n / d, for integers n >= 0 and 0 < d < 2^14
DoubleDiv(n, d) ==
    IF n = 0 THEN DZero
    ELSE LET e == IF n >= d THEN BitLen(n \div d) - 1
                  ELSE -(CHOOSE p \in 1..BitLen(d) :
                            n * 2^p >= d /\ n * 2^(p - 1) < d)
             sig == [i \in 1..(Prec + 1) |-> QuotientBit(n, d, e - (i - 1))]
             sticky == ((n % d) * PowMod(2, Prec - e, d)) % d # 0
         IN  RoundToDouble(sig, e, sticky)

\* the bits of m * c for a Prec-bit significand m and an integer 0 < c < 2^12,
\* computed limb by limb from the least significant limb
MulBits(m, c) ==
    LET lo == Prec - 2 * Limb
        p3 == BitsToInt(SubSeq(m, 2 * Limb + 1, Prec)) * c
        p2 == BitsToInt(SubSeq(m, Limb + 1, 2 * Limb)) * c + p3 \div 2^lo
        p1 == BitsToInt(SubSeq(m, 1, Limb)) * c + p2 \div 2^Limb
    IN  BitsOf(p1) \o LowBits(p2 % 2^Limb, Limb) \o LowBits(p3 % 2^lo, lo)

\* the double nearest to s * c, for a double s >= 0 and an integer 1 < c < 2^12
DoubleMul(s, c) ==
    IF s.m = <<>> THEN DZero
    ELSE LET prod == MulBits(s.m, c)
             e == s.e - (Prec - 1) + (Len(prod) - 1)
         IN  RoundToDouble(prod, e, FALSE)

\* Math.floor of a double 0 <= s < 2^30
DoubleFloor(s) ==
    IF s.m = <<>> \/ s.e < 0 THEN 0
    ELSE BitsToInt(SubSeq(s.m, 1, s.e + 1))

\* polyp.startFrame / 30, polyp.endFrame / 30
FrameToSeconds(f) == DoubleDiv(f, R)

\* Math.floor(annotation.start_time * 30)
SecondsToFrame(s) == DoubleFloor(DoubleMul(s, R))

\* ------------------------------------------------------------ the page
\* frames holds the ids of the FrameInfo records (the path only names the image)
FrameIdAt(fr, idx) == IF Len(fr) > 0 THEN fr[idx + 1] ELSE Null

currentFrameId == FrameIdAt(frames, currentFrameIndex)

\* the early returns of the component: while loading, or once an error is set,
\* the page renders a single message and none of its sub-views
PageShown == ~loading /\ error = "" /\ videoMetadata # <<>>

MapSeq(s, Op(_)) == [k \in 1..Len(s) |-> Op(s[k])]

Ids(s) == { s[k].id : k \in 1..Len(s) }

\* JavaScript truthiness of a value of type number | null
Truthy(n) == n # Null /\ n # 0

\* --------------------------------------------------- persistence service
\* The annotation service keeps one record per (frame_id, polyp_id).
Upsert(store, w) ==
    { r \in store : ~(r.frame_id = w.frame_id /\ r.polyp_id = w.polyp_id) } \cup {w}

Remove(store, frameId, polypId) ==
    { r \in store : ~(r.frame_id = frameId /\ r.polyp_id = polypId) }

\* the records of one frame, in the order of their polyp_id
RECURSIVE SortedById(_)
SortedById(rs) ==
    IF rs = {} THEN <<>>
    ELSE LET lo == CHOOSE r \in rs : \A q \in rs : r.polyp_id <= q.polyp_id
         IN  <<lo>> \o SortedById(rs \ {lo})

FetchByFrame(store, frameId) == SortedById({ r \in store : r.frame_id = frameId })

\* ------------------------------------------------------- saveAnnotation
\* a body whose x2 and y2 repeat the width and the height instead of giving the
\* bottom-right corner
AnnotationDataExtent(polyp) ==
    [ frame_id |-> polyp.frame,
      polyp_id |-> polyp.id,
      label |-> IF polyp.notes = "" THEN "No Label" ELSE polyp.notes,
      x1 |-> polyp.position.x,
      y1 |-> polyp.position.y,
      x2 |-> polyp.size.width,
      y2 |-> polyp.size.height,
      width |-> polyp.size.width,
      height |-> polyp.size.height,
      start_time |-> DoubleDiv(polyp.startFrame, R),
      end_time |-> IF Truthy(polyp.endFrame) THEN DoubleDiv(polyp.endFrame, R)
                   ELSE NoTime,
      content |-> polyp.notes ]

\* the body of the POST that saveAnnotation sends for a polyp
AnnotationData(polyp) ==
    [ frame_id |-> polyp.frame,
      polyp_id |-> polyp.id,
      label |-> IF polyp.notes = "" THEN "No Label" ELSE polyp.notes,
      x1 |-> polyp.position.x,
      y1 |-> polyp.position.y,
      x2 |-> polyp.position.x + polyp.size.width,
      y2 |-> polyp.position.y + polyp.size.height,
      width |-> polyp.size.width,
      height |-> polyp.size.height,
      start_time |-> FrameToSeconds(polyp.startFrame),
      end_time |-> IF Truthy(polyp.endFrame) THEN FrameToSeconds(polyp.endFrame)
                   ELSE NoTime,
      content |-> polyp.notes ]

\* the polyp that loadAnnotations builds from a fetched record
MappedPolyp(annotation, frameId) ==
    [ id |-> annotation.polyp_id,
      frame |-> frameId,
      notes |-> annotation.content,
      startFrame |-> SecondsToFrame(annotation.start_time),
      endFrame |-> IF annotation.end_time # NoTime /\ annotation.end_time # DZero
                   THEN SecondsToFrame(annotation.end_time) ELSE Null,
      position |-> [x |-> annotation.x1, y |-> annotation.y1],
      size |-> [width |-> annotation.width, height |-> annotation.height] ]

RECURSIVE BagOfSeq(_)
BagOfSeq(s) ==
    IF s = <<>> THEN EmptyBag ELSE SetToBag({Head(s)}) (+) BagOfSeq(Tail(s))

\* saveAnnotation for each polyp of ps, in order: without a token it only sets
\* the error; with one it raises saving and posts the annotation
SaveAnnotations(ps) ==
    IF ps = <<>> THEN UNCHANGED <<saves, saving, error>>
    ELSE IF ~authToken
    THEN /\ error' = "Authentication required to save annotations."
         /\ UNCHANGED <<saves, saving>>
    ELSE /\ BagCardinality(saves) + Len(ps) <= MaxInFlight
         /\ saves' = saves (+) BagOfSeq(MapSeq(ps, AnnotationData))
         /\ saving' = TRUE
         /\ UNCHANGED error

\* ------------------------------------------------- loadAnnotations effect
\* The effect runs after a render in which one of its dependencies
\* (currentFrameIndex, isFrameAnnotationMode, currentFrameId) changed.
EffectRuns(fr, idx, md) ==
    /\ <<idx, md, FrameIdAt(fr, idx)>>
         # <<currentFrameIndex, isFrameAnnotationMode, currentFrameId>>
    /\ FrameIdAt(fr, idx) # Null
    /\ md

LoadAnnotations(fr, idx, md) ==
    IF ~EffectRuns(fr, idx, md) THEN UNCHANGED <<loads, error>>
    ELSE IF ~authToken
    THEN /\ error' = "Authentication required to load annotations."
         /\ UNCHANGED loads
    ELSE /\ BagCardinality(loads) < MaxInFlight
         /\ loads' = loads (+) SetToBag({FrameIdAt(fr, idx)})
         /\ UNCHANGED error

\* ------------------------------------------------------------ projections
\* the polyps handed to AnnotationOverlay in frame mode
FrameOverlayPolyps == SelectSeq(polyps, LAMBDA polyp : polyp.frame = currentFrameId)

\* a continuous overlay that is handed the whole Store
UnfilteredPolyps == polyps

\* the polyps handed to AnnotationOverlay in continuous mode
ContinuousOverlayPolyps == SelectSeq(polyps, LAMBDA polyp : ~Truthy(polyp.endFrame))

OverlayPolyps ==
    IF isFrameAnnotationMode THEN FrameOverlayPolyps ELSE ContinuousOverlayPolyps

\* Sidebar.filteredPolyps
SidebarPolyps ==
    IF isFrameAnnotationMode
    THEN SelectSeq(polyps, LAMBDA polyp : polyp.frame = currentFrameId)
    ELSE SelectSeq(polyps, LAMBDA polyp : polyp.frame = Null)

\* ------------------------------------------------------------------ Init
Init ==
    /\ frames = <<>>
    /\ polyps = <<>>
    /\ selectedPolyp = Null
    /\ isResizing = FALSE
    /\ isDragging = FALSE
    /\ dragStart = [x |-> 0, y |-> 0]
    /\ isDrawing = FALSE
    /\ drawingStart = [x |-> 0, y |-> 0]
    /\ currentDrawing = NoRect
    /\ videoMetadata = <<>>
    /\ loading = TRUE
    /\ error = ""
    /\ isFrameAnnotationMode = FALSE
    /\ currentFrameIndex = 0
    /\ saving = FALSE
    /\ authToken \in BOOLEAN
    /\ clock = 1
    /\ pointer = [x |-> 0, y |-> 0]
    /\ saves = EmptyBag
    /\ loads = EmptyBag
    /\ deletes = EmptyBag
    /\ framesFetch = 0
    /\ db = {}
    /\ events = 0
    /\ last = [op |-> "mount", id |-> Null]
    /\ isPlaying = FALSE
    /\ cropStart = 0
    /\ cropEnd = 0
    /\ currentTime = 0

\* a completion of a network call
Note(op, id) == last' = [op |-> op, id |-> id] /\ UNCHANGED events

\* an event of the user: at most MaxEvents of them in a run
UserEvent(op, id) ==
    /\ events < MaxEvents
    /\ events' = events + 1
    /\ last' = [op |-> op, id |-> id]

\* -------------------------------------------------------- parseDuration
\* the result of an arithmetic operation that is not a number
NaN == -1000000000

DigitChars == <<"0", "1", "2", "3", "4", "5", "6", "7", "8", "9">>

IsDigit(c) == \E d \in 1..10 : DigitChars[d] = c

DigitOf(c) == (CHOOSE d \in 1..10 : DigitChars[d] = c) - 1

\* the value of a sequence of digits
RECURSIVE Decimal(_)
Decimal(str) ==
    IF str = <<>> THEN 0
    ELSE Decimal(SubSeq(str, 1, Len(str) - 1)) * 10 + DigitOf(str[Len(str)])

\* the length of the longest prefix of str made of digits
RECURSIVE DigitPrefix(_)
DigitPrefix(str) ==
    IF str = <<>> \/ ~IsDigit(str[1]) THEN 0 ELSE 1 + DigitPrefix(Tail(str))

RECURSIVE TrimStart(_)
TrimStart(str) ==
    IF str # <<>> /\ str[1] = " " THEN TrimStart(Tail(str)) ELSE str

\* parseInt(str, 10): leading blanks are skipped, a sign is read, and the
\* digits up to the first other character are the value; NaN without a digit
parseInt(str) ==
    LET trimmed == TrimStart(str)
        signed == trimmed # <<>> /\ trimmed[1] \in {"+", "-"}
        digits == IF signed THEN Tail(trimmed) ELSE trimmed
        n == DigitPrefix(digits)
    IN  IF n = 0 THEN NaN
        ELSE IF signed /\ trimmed[1] = "-" THEN 0 - Decimal(SubSeq(digits, 1, n))
        ELSE Decimal(SubSeq(digits, 1, n))

\* str.split(':')
RECURSIVE Split(_)
Split(str) ==
    IF \A k \in 1..Len(str) : str[k] # ":" THEN <<str>>
    ELSE LET k == CHOOSE j \in 1..Len(str) :
                      str[j] = ":" /\ \A i \in 1..(j - 1) : str[i] # ":"
         IN  <<SubSeq(str, 1, k - 1)>> \o Split(SubSeq(str, k + 1, Len(str)))

\* a * b and a + b of JavaScript numbers
JsTimes(a, b) == IF a = NaN \/ b = NaN THEN NaN ELSE a * b
JsPlus(a, b) == IF a = NaN \/ b = NaN THEN NaN ELSE a + b

\* a || 0 for a number a
OrZero(a) == IF a = NaN \/ a = 0 THEN 0 ELSE a

parseDuration(duration) ==
    IF duration.type = "string"
    THEN LET parts == MapSeq(Split(duration.value), parseInt)
         IN  IF Len(parts) = 3
             THEN JsPlus(JsPlus(JsTimes(parts[1], 3600), JsTimes(parts[2], 60)), parts[3])
             ELSE IF Len(parts) = 2
             THEN JsPlus(JsTimes(parts[1], 60), parts[2])
             ELSE OrZero(parseInt(duration.value))
    ELSE IF duration.type = "number"
    THEN duration.value
    ELSE 0

\* JavaScript truthiness of metadata.duration
TruthyDuration(duration) ==
    IF duration.type = "string" THEN duration.value # <<>>
    ELSE IF duration.type = "number" THEN duration.value # 0 /\ duration.value # NaN
    ELSE duration.value = TRUE

\* ------------------------------------------------------- fetchVideoData
\* the continuation of fetchVideoData for an answer whose duration field is
\* duration
StoreVideoData(duration) ==
    LET durationSec == IF TruthyDuration(duration) THEN parseDuration(duration) ELSE 0
    IN  /\ loading
        /\ videoMetadata' = <<[duration |-> duration]>>
        /\ cropEnd' = durationSec
        /\ loading' = FALSE
        /\ Note("fetchVideoDataOk", Null)
        /\ UNCHANGED <<polyps, selectedPolyp, gesture, error, mode, saving, env, net,
                       isPlaying, cropStart, currentTime>>

FetchVideoDataOk == \E duration \in Durations : StoreVideoData(duration)

FetchVideoDataFail ==
    /\ loading
    /\ error' = "Unable to load video. Please try again later."
    /\ loading' = FALSE
    /\ Note("fetchVideoDataFail", Null)
    /\ UNCHANGED <<polyps, selectedPolyp, gesture, videoMetadata, mode, saving, env, net,
                   player>>

\* ------------------------------------------------ NavigationBar, fetchFrames
\* "Annotate Frames": fetchFrames sends the request and awaits the answer
EnterFrameMode ==
    /\ PageShown
    /\ ~isFrameAnnotationMode
    /\ framesFetch < MaxInFlight
    /\ framesFetch' = framesFetch + 1
    /\ UserEvent("enterFrameMode", Null)
    /\ UNCHANGED <<polyps, selectedPolyp, gesture, page, error, mode, saving, env,
                   saves, loads, deletes, db>>

FetchFramesOk ==
    \E data \in FrameLists :
        /\ framesFetch > 0
        /\ framesFetch' = framesFetch - 1
        /\ frames' = data
        /\ currentFrameIndex' = 0
        /\ isFrameAnnotationMode' = TRUE
        /\ LoadAnnotations(data, 0, TRUE)
        /\ Note("fetchFramesOk", Null)
        /\ UNCHANGED <<polyps, selectedPolyp, gesture, page, saving, env,
                       saves, deletes, db>>

FetchFramesFail ==
    /\ framesFetch > 0
    /\ framesFetch' = framesFetch - 1
    /\ error' = "Unable to load frames. Please try again later."
    /\ Note("fetchFramesFail", Null)
    /\ UNCHANGED <<polyps, selectedPolyp, gesture, page, mode, saving, env,
                   saves, loads, deletes, db>>

\* "Exit Frame Mode": the effect runs and returns at once, the mode being off
ExitFrameMode ==
    /\ PageShown
    /\ isFrameAnnotationMode
    /\ isFrameAnnotationMode' = FALSE
    /\ UserEvent("exitFrameMode", Null)
    /\ UNCHANGED <<frames, currentFrameIndex, polyps, selectedPolyp, gesture, page,
                   error, saving, env, net>>

\* ------------------------------------------------------ frame navigation
PreviousFrame ==
    /\ PageShown
    /\ isFrameAnnotationMode
    /\ currentFrameIndex # 0
    /\ currentFrameIndex' = Max(currentFrameIndex - 1, 0)
    /\ LoadAnnotations(frames, currentFrameIndex', TRUE)
    /\ UserEvent("previousFrame", Null)
    /\ UNCHANGED <<frames, isFrameAnnotationMode, polyps, selectedPolyp, gesture, page,
                   saving, env, saves, deletes, framesFetch, db>>

NextFrame ==
    /\ PageShown
    /\ isFrameAnnotationMode
    /\ currentFrameIndex # Len(frames) - 1
    /\ currentFrameIndex' = Min(currentFrameIndex + 1, Len(frames) - 1)
    /\ LoadAnnotations(frames, currentFrameIndex', TRUE)
    /\ UserEvent("nextFrame", Null)
    /\ UNCHANGED <<frames, isFrameAnnotationMode, polyps, selectedPolyp, gesture, page,
                   saving, env, saves, deletes, framesFetch, db>>

\* --------------------------------------------- completions of loadAnnotations
\* a reload that keeps the polyps of the Store and adds the fetched ones
MergedPolyps(prev, mappedPolyps) == prev \o mappedPolyps

\* setPolyps(mappedPolyps): the Store after a reload
LoadedPolyps(prev, mappedPolyps) == mappedPolyps

\* mappedPolyps for the answer to the fetch of frameId
MappedPolyps(frameId) ==
    MapSeq(FetchByFrame(db, frameId), LAMBDA annotation : MappedPolyp(annotation, frameId))

LoadOk ==
    \E frameId \in BagToSet(loads) :
        /\ loads' = loads (-) SetToBag({frameId})
        /\ polyps' = LoadedPolyps(polyps, MappedPolyps(frameId))
        /\ Note("loadOk", frameId)
        /\ UNCHANGED <<selectedPolyp, gesture, page, error, mode, saving, env,
                       saves, deletes, framesFetch, db>>

LoadFail ==
    \E frameId \in BagToSet(loads) :
        /\ loads' = loads (-) SetToBag({frameId})
        /\ error' = "Failed to load annotations: Failed to fetch annotations."
        /\ Note("loadFail", frameId)
        /\ UNCHANGED <<polyps, selectedPolyp, gesture, page, mode, saving, env,
                       saves, deletes, framesFetch, db>>

\* ---------------------------------------------- completions of saveAnnotation
\* a completion that writes the geometry of the answer back into the Store
OverwrittenBySaved(prev, savedAnnotation) ==
    MapSeq(prev, LAMBDA polyp :
        IF polyp.id = savedAnnotation.polyp_id
        THEN [polyp EXCEPT !.position = [x |-> savedAnnotation.x1, y |-> savedAnnotation.y1],
                           !.size = [ width |-> savedAnnotation.width,
                                      height |-> savedAnnotation.height ]]
        ELSE polyp)

\* the Store after a completion: savedAnnotation is logged and dropped
AfterSave(prev, savedAnnotation) == prev

SaveOk ==
    \E data \in BagToSet(saves) :
        /\ saves' = saves (-) SetToBag({data})
        /\ db' = Upsert(db, data)
        /\ polyps' = AfterSave(polyps, data)
        /\ saving' = FALSE
        /\ Note("saveOk", data.polyp_id)
        /\ UNCHANGED <<selectedPolyp, gesture, page, error, mode, env,
                       loads, deletes, framesFetch>>

SaveFail ==
    \E data \in BagToSet(saves) :
        /\ saves' = saves (-) SetToBag({data})
        /\ error' = "Failed to save annotation: Failed to save annotation."
        /\ saving' = FALSE
        /\ Note("saveFail", data.polyp_id)
        /\ UNCHANGED <<polyps, selectedPolyp, gesture, page, mode, env,
                       loads, deletes, framesFetch, db>>

\* --------------------------------------------------------------- gestures
\* a pointer event over the surface: clientX and clientY of a surface point
EventAt(pt) == [clientX |-> pt.x + ContainerLeft, clientY |-> pt.y + ContainerTop]

HasPolyp(polypId) == \E k \in 1..Len(polyps) : polyps[k].id = polypId

\* polyps.find(p => p.id === polypId), for an id that is present
FindPolyp(polypId) ==
    polyps[CHOOSE k \in 1..Len(polyps) :
               polyps[k].id = polypId /\ \A j \in 1..(k - 1) : polyps[j].id # polypId]

\* FrameViewer is mounted, with its mouse handlers, only in frame mode
FrameViewerShown == PageShown /\ isFrameAnnotationMode

\* handleMouseDown(e) for an event at pt; the target of an event on the
\* FrameViewer is never a polyp (the overlay is a sibling of the viewer, not a
\* child)
handleMouseDown(pt) ==
    LET x == EventAt(pt).clientX - ContainerLeft
        y == EventAt(pt).clientY - ContainerTop
    IN  /\ IF ~isFrameAnnotationMode
           THEN UNCHANGED <<isDrawing, drawingStart, currentDrawing, selectedPolyp, pointer>>
           ELSE /\ isDrawing' = TRUE
                /\ drawingStart' = [x |-> x, y |-> y]
                /\ currentDrawing' = [x |-> x, y |-> y, width |-> 0, height |-> 0]
                /\ selectedPolyp' = Null
                /\ pointer' = pt
        /\ UserEvent("mouseDown", Null)
        /\ UNCHANGED <<polyps, isResizing, isDragging, dragStart, page, error, mode,
                       saving, authToken, clock, net>>

\* mouse-down on the FrameViewer
HandleMouseDown == \E pt \in Points : FrameViewerShown /\ handleMouseDown(pt)

\* a preview rectangle that keeps the press point as its corner and the signed
\* extent of the move: what handleMouseMove would store without normalising
DrawingRectSigned(start, currentX, currentY) ==
    [ x |-> start.x, y |-> start.y,
      width |-> currentX - start.x, height |-> currentY - start.y ]

\* the preview rectangle of handleMouseMove
DrawingRect(start, currentX, currentY) ==
    LET width == currentX - start.x
        height == currentY - start.y
    IN  [ x |-> IF width < 0 THEN currentX ELSE start.x,
          y |-> IF height < 0 THEN currentY ELSE start.y,
          width |-> Abs(width),
          height |-> Abs(height) ]

\* a drag that also cuts the size of the polyp down to the surface
DraggedAndFitted(polyp, e) ==
    LET newX == e.clientX - ContainerLeft - dragStart.x
        newY == e.clientY - ContainerTop - dragStart.y
        width == Min(polyp.size.width, W)
        height == Min(polyp.size.height, H)
    IN  [polyp EXCEPT !.position = [ x |-> Max(0, Min(newX, W - width)),
                                     y |-> Max(0, Min(newY, H - height)) ],
                      !.size = [width |-> width, height |-> height]]

\* the polyp onDrag puts in the place of the selected one
DraggedPolyp(polyp, e) ==
    LET newX == e.clientX - ContainerLeft - dragStart.x
        newY == e.clientY - ContainerTop - dragStart.y
    IN  [polyp EXCEPT !.position =
            [ x |-> Max(0, Min(newX, W - polyp.size.width)),
              y |-> Max(0, Min(newY, H - polyp.size.height)) ]]

\* the polyp onResize puts in the place of the selected one
ResizedPolyp(p, e) ==
    LET deltaX == e.clientX - dragStart.x
        deltaY == e.clientY - dragStart.y
    IN  [p EXCEPT !.size =
            [ width |-> Max(MinSize, Min(p.size.width + deltaX, W - p.position.x)),
              height |-> Max(MinSize, Min(p.size.height + deltaY, H - p.position.y)) ]]

\* handleMouseMove(e) for an event at pt, with onResize and onDrag
handleMouseMove(pt) ==
        LET e == EventAt(pt) IN
        /\ IF ~isFrameAnnotationMode
           THEN /\ UserEvent("mouseMove", Null)
                /\ UNCHANGED <<polyps, currentDrawing, dragStart, saves, saving, error,
                               pointer>>
           ELSE
           /\ pointer' = pt
           /\ IF isDrawing
              THEN /\ currentDrawing' = DrawingRect(drawingStart, e.clientX - ContainerLeft,
                                                    e.clientY - ContainerTop)
                   /\ UserEvent("drawMove", Null)
                   /\ UNCHANGED <<polyps, dragStart, saves, saving, error>>
              ELSE IF isResizing
              THEN /\ IF selectedPolyp # Null /\ HasPolyp(selectedPolyp)
                      THEN /\ polyps' = MapSeq(polyps, LAMBDA p :
                                   IF p.id = selectedPolyp THEN ResizedPolyp(p, e) ELSE p)
                           /\ dragStart' = [x |-> e.clientX, y |-> e.clientY]
                           /\ UserEvent("resizeMove", selectedPolyp)
                      ELSE /\ UserEvent("mouseMove", Null)
                           /\ UNCHANGED <<polyps, dragStart>>
                   /\ UNCHANGED <<currentDrawing, saves, saving, error>>
              ELSE IF isDragging /\ selectedPolyp # Null
              THEN /\ polyps' = MapSeq(polyps, LAMBDA polyp :
                           IF polyp.id = selectedPolyp THEN DraggedPolyp(polyp, e) ELSE polyp)
                   /\ SaveAnnotations(MapSeq(
                           SelectSeq(polyps, LAMBDA polyp : polyp.id = selectedPolyp),
                           LAMBDA polyp : DraggedPolyp(polyp, e)))
                   /\ UserEvent("dragMove", selectedPolyp)
                   /\ UNCHANGED <<currentDrawing, dragStart>>
              ELSE /\ UserEvent("mouseMove", Null)
                   /\ UNCHANGED <<polyps, currentDrawing, dragStart, saves, saving, error>>
        /\ UNCHANGED <<selectedPolyp, isResizing, isDragging, isDrawing, drawingStart,
                       page, mode, authToken, clock, loads, deletes, framesFetch, db>>

\* mouse-move over the FrameViewer
HandleMouseMove == \E pt \in Points : FrameViewerShown /\ handleMouseMove(pt)

\* a new polyp that starts on the frame after the one shown
NewPolypNextFrame(now) ==
    [ id |-> now,
      frame |-> currentFrameId,
      notes |-> "",
      startFrame |-> currentFrameIndex + 2,
      endFrame |-> Null,
      position |-> [x |-> currentDrawing.x, y |-> currentDrawing.y],
      size |-> [width |-> currentDrawing.width, height |-> currentDrawing.height] ]

\* the polyp handleMouseUp creates from the preview rectangle
NewPolyp(now) ==
    [ id |-> now,
      frame |-> currentFrameId,
      notes |-> "",
      startFrame |-> currentFrameIndex + 1,
      endFrame |-> Null,
      position |-> [x |-> currentDrawing.x, y |-> currentDrawing.y],
      size |-> [width |-> currentDrawing.width, height |-> currentDrawing.height] ]

\* handleMouseUp(); now is the reading of Date.now()
handleMouseUp ==
    /\ IF isDrawing /\ currentDrawing # NoRect /\ currentFrameId # Null
       THEN \E now \in clock..MaxClock :
                /\ Len(polyps) < MaxPolyps
                /\ clock' = now
                /\ polyps' = Append(polyps, NewPolyp(now))
                /\ isDrawing' = FALSE
                /\ currentDrawing' = NoRect
                /\ SaveAnnotations(<<NewPolyp(now)>>)
                /\ UserEvent("draw", now)
                /\ UNCHANGED <<isDragging, isResizing>>
       ELSE /\ isDragging' = FALSE
            /\ isResizing' = FALSE
            /\ UserEvent("mouseUp", Null)
            /\ UNCHANGED <<polyps, isDrawing, currentDrawing, saves, saving, error,
                           clock>>
    /\ UNCHANGED <<selectedPolyp, dragStart, drawingStart, page, mode, authToken,
                   pointer, loads, deletes, framesFetch, db>>

\* mouse-up on the FrameViewer, or the pointer leaving it
HandleMouseUp == FrameViewerShown /\ handleMouseUp

\* ------------------------------------------------------ AnnotationOverlay
InsideBox(pt, polyp) ==
    /\ polyp.position.x <= pt.x /\ pt.x <= polyp.position.x + polyp.size.width
    /\ polyp.position.y <= pt.y /\ pt.y <= polyp.position.y + polyp.size.height

\* startDrag(e, polypId)
StartDragAt(e, polypId) ==
    /\ IF ~isFrameAnnotationMode
       THEN UNCHANGED <<isDragging, isResizing, selectedPolyp, dragStart>>
       ELSE /\ isDragging' = TRUE
            /\ isResizing' = FALSE
            /\ selectedPolyp' = polypId
            /\ IF HasPolyp(polypId)
               THEN dragStart' =
                        [ x |-> e.clientX - ContainerLeft - FindPolyp(polypId).position.x,
                          y |-> e.clientY - ContainerTop - FindPolyp(polypId).position.y ]
               ELSE UNCHANGED dragStart
    /\ UserEvent("startDrag", polypId)
    /\ UNCHANGED <<polyps, isDrawing, drawingStart, currentDrawing, page, error, mode,
                   saving, env, net>>

\* mouse-down on the body of a polyp the overlay shows
StartDrag ==
    \E k \in 1..Len(OverlayPolyps) :
        \E pt \in Points \cup {OverlayPolyps[k].position} :
            /\ PageShown
            /\ InsideBox(pt, OverlayPolyps[k])
            /\ StartDragAt(EventAt(pt), OverlayPolyps[k].id)

\* startResize(e, polypId)
StartResizeAt(e, polypId) ==
    /\ IF ~isFrameAnnotationMode
       THEN UNCHANGED <<isDragging, isResizing, selectedPolyp, dragStart>>
       ELSE /\ isResizing' = TRUE
            /\ isDragging' = FALSE
            /\ selectedPolyp' = polypId
            /\ dragStart' = [x |-> e.clientX, y |-> e.clientY]
    /\ UserEvent("startResize", polypId)
    /\ UNCHANGED <<polyps, isDrawing, drawingStart, currentDrawing, page, error, mode,
                   saving, env, net>>

\* mouse-down on the resize handle, at the bottom-right corner of a polyp
StartResize ==
    \E k \in 1..Len(OverlayPolyps) :
        LET polyp == OverlayPolyps[k]
            corner == [ x |-> polyp.position.x + polyp.size.width,
                        y |-> polyp.position.y + polyp.size.height ]
        IN  /\ PageShown
            /\ StartResizeAt(EventAt(corner), polyp.id)

\* onSelectPolyp, from a click on a polyp of the overlay or a row of the sidebar
SelectPolyp ==
    \E polypId \in Ids(OverlayPolyps) \cup Ids(SidebarPolyps) :
        /\ PageShown
        /\ selectedPolyp' = polypId
        /\ UserEvent("select", polypId)
        /\ UNCHANGED <<polyps, gesture, page, error, mode, saving, env, net>>

\* ---------------------------------------------------------------- Sidebar
\* an ended polyp that records the 0-based index instead of the frame number
EndedPolypZeroBased(polyp) == [polyp EXCEPT !.endFrame = currentFrameIndex]

\* the polyp handleEndPolyp puts in the place of the one it ends
EndedPolyp(polyp) == [polyp EXCEPT !.endFrame = currentFrameIndex + 1]

\* handleEndPolyp(polypId): the polyp it saves is the one found in the polyps
\* of the render the handler belongs to
HandleEndPolyp(polypId) ==
    IF isFrameAnnotationMode /\ currentFrameId # Null
    THEN /\ polyps' = MapSeq(polyps, LAMBDA polyp :
                 IF polyp.id = polypId THEN EndedPolyp(polyp) ELSE polyp)
         /\ SaveAnnotations(IF HasPolyp(polypId) THEN <<FindPolyp(polypId)>> ELSE <<>>)
    ELSE UNCHANGED <<polyps, saves, saving, error>>

\* the "End" button of a row; the click bubbles to the row, which selects
EndPolyp ==
    \E polypId \in Ids(SidebarPolyps) :
        /\ PageShown
        /\ isFrameAnnotationMode
        /\ HandleEndPolyp(polypId)
        /\ selectedPolyp' = polypId
        /\ UserEvent("end", polypId)
        /\ UNCHANGED <<gesture, page, mode, env, loads, deletes, framesFetch, db>>

\* the polyp handleAddNote puts in the place of the one it annotates
NotedPolyp(polyp, note) == [polyp EXCEPT !.notes = note]

\* handleAddNote(polypId) with the answer of prompt(); an empty answer and a
\* cancelled prompt return at once.  The polyp it saves is the one found in the
\* polyps of the render the handler belongs to.
HandleAddNote(polypId, note) ==
    IF note = ""
    THEN UNCHANGED <<polyps, saves, saving, error>>
    ELSE /\ polyps' = MapSeq(polyps, LAMBDA polyp :
                 IF polyp.id = polypId THEN NotedPolyp(polyp, note) ELSE polyp)
         /\ SaveAnnotations(IF HasPolyp(polypId) THEN <<FindPolyp(polypId)>> ELSE <<>>)

\* the note button of a row; the click bubbles to the row, which selects
AddNote ==
    \E polypId \in Ids(SidebarPolyps) :
        \E note \in Notes \cup {""} :
            /\ PageShown
            /\ isFrameAnnotationMode
            /\ HandleAddNote(polypId, note)
            /\ selectedPolyp' = polypId
            /\ UserEvent("addNote", polypId)
            /\ UNCHANGED <<gesture, page, mode, env, loads, deletes, framesFetch, db>>

\* a delete that sends its request whether or not a token is present
HandleDeleteAnyToken(polypId) ==
    IF currentFrameId = Null
    THEN /\ error' = "Failed to delete annotation: Current frame ID is not available."
         /\ UNCHANGED deletes
    ELSE /\ BagCardinality(deletes) < MaxInFlight
         /\ deletes' = deletes (+) SetToBag({[ frame_id |-> currentFrameId,
                                               polyp_id |-> polypId,
                                               selectedPolyp |-> selectedPolyp ]})
         /\ UNCHANGED error

\* a delete that sends its request without testing the current frame id
HandleDeleteUnchecked(polypId) ==
    IF ~authToken
    THEN /\ error' = "Authentication required to delete annotations."
         /\ UNCHANGED deletes
    ELSE /\ BagCardinality(deletes) < MaxInFlight
         /\ deletes' = deletes (+) SetToBag({[ frame_id |-> currentFrameId,
                                               polyp_id |-> polypId,
                                               selectedPolyp |-> selectedPolyp ]})
         /\ UNCHANGED error

\* handleDeletePolyp(polypId) up to its await: the request keeps the frame id
\* and the selection of the render the handler belongs to
HandleDeletePolyp(polypId) ==
    IF ~authToken
    THEN /\ error' = "Authentication required to delete annotations."
         /\ UNCHANGED deletes
    ELSE IF currentFrameId = Null
    THEN /\ error' = "Failed to delete annotation: Current frame ID is not available."
         /\ UNCHANGED deletes
    ELSE /\ BagCardinality(deletes) < MaxInFlight
         /\ deletes' = deletes (+) SetToBag({[ frame_id |-> currentFrameId,
                                               polyp_id |-> polypId,
                                               selectedPolyp |-> selectedPolyp ]})
         /\ UNCHANGED error

\* the delete button of a row; the click bubbles to the row, which selects
DeletePolyp ==
    \E polypId \in Ids(SidebarPolyps) :
        /\ PageShown
        /\ isFrameAnnotationMode
        /\ HandleDeletePolyp(polypId)
        /\ selectedPolyp' = polypId
        /\ UserEvent("delete", polypId)
        /\ UNCHANGED <<polyps, gesture, page, mode, saving, env, saves, loads,
                       framesFetch, db>>

\* handleKeyDown: the Delete key, listened for on the document
KeyDelete ==
    /\ selectedPolyp # Null
    /\ HandleDeletePolyp(selectedPolyp)
    /\ UserEvent("keyDelete", selectedPolyp)
    /\ UNCHANGED <<polyps, selectedPolyp, gesture, page, mode, saving, env, saves,
                   loads, framesFetch, db>>

\* ------------------------------------------- completions of deleteAnnotation
DeleteOk ==
    \E d \in BagToSet(deletes) :
        /\ deletes' = deletes (-) SetToBag({d})
        /\ db' = Remove(db, d.frame_id, d.polyp_id)
        /\ polyps' = SelectSeq(polyps, LAMBDA polyp : polyp.id # d.polyp_id)
        /\ selectedPolyp' = IF d.selectedPolyp = d.polyp_id THEN Null ELSE selectedPolyp
        /\ Note("deleteOk", d.polyp_id)
        /\ UNCHANGED <<gesture, page, error, mode, saving, env, saves, loads,
                       framesFetch>>

DeleteFail ==
    \E d \in BagToSet(deletes) :
        /\ deletes' = deletes (-) SetToBag({d})
        /\ error' = "Failed to delete annotation: Failed to delete annotation."
        /\ Note("deleteFail", d.polyp_id)
        /\ UNCHANGED <<polyps, selectedPolyp, gesture, page, mode, saving, env, saves,
                       loads, framesFetch, db>>

\* ------------------------------------------------------------------ Next
Next ==
    \/ FetchVideoDataOk
    \/ FetchVideoDataFail
    \/ EnterFrameMode
    \/ FetchFramesOk
    \/ FetchFramesFail
    \/ ExitFrameMode
    \/ PreviousFrame
    \/ NextFrame
    \/ LoadOk
    \/ LoadFail
    \/ SaveOk
    \/ SaveFail
    \/ HandleMouseDown
    \/ HandleMouseMove
    \/ HandleMouseUp
    \/ StartDrag
    \/ StartResize
    \/ SelectPolyp
    \/ EndPolyp
    \/ AddNote
    \/ DeletePolyp
    \/ KeyDelete
    \/ DeleteOk
    \/ DeleteFail

Spec == Init /\ [][Next]_vars

\* ------------------------------------------------ polyps of stored records
\* polyps as loadAnnotations maps them from records of an earlier session
StoredPolyps ==
    { [ id |-> 1, frame |-> 11, notes |-> "", startFrame |-> 1, endFrame |-> Null,
        position |-> [x |-> d, y |-> d],
        size |-> [width |-> width, height |-> height] ] :
      d \in {0, 10}, width \in {MinSize, W + 10}, height \in {MinSize, H + 10} }

OtherPolyp ==
    [ id |-> 2, frame |-> 11, notes |-> "n", startFrame |-> 1, endFrame |-> Null,
      position |-> [x |-> 5, y |-> 5],
      size |-> [width |-> MinSize, height |-> MinSize] ]

\* ------------------------------------------------ handlers on a removed id
\* The handlers take the id as an argument.  A handler of the render that still
\* showed a polyp can run once the delete of that polyp has completed: the
\* calls below are the ones that directly follow the completion.
JustDeleted(polypId) ==
    last.op = "deleteOk" /\ last.id = polypId /\ ~HasPolyp(polypId)

\* handleEndPolyp(polypId) for the polyp just deleted
EndDeleted ==
    \E polypId \in 1..MaxClock :
        /\ JustDeleted(polypId)
        /\ HandleEndPolyp(polypId)
        /\ UserEvent("end", polypId)
        /\ UNCHANGED <<selectedPolyp, gesture, page, mode, env, loads, deletes,
                       framesFetch, db>>

\* startDrag(e, polypId) for the polyp just deleted
DragDeleted ==
    \E polypId \in 1..MaxClock :
        \E pt \in Points :
            /\ JustDeleted(polypId)
            /\ StartDragAt(EventAt(pt), polypId)

\* handleEndPolyp(polypId) for a polyp of the Store that has no row: between a
\* change of frame and the completion of its reload the Store still holds the
\* polyps of the frame that was left
EndOffFrame ==
    \E polypId \in Ids(polyps) \ Ids(SidebarPolyps) :
        /\ PageShown
        /\ isFrameAnnotationMode
        /\ HandleEndPolyp(polypId)
        /\ UserEvent("end", polypId)
        /\ UNCHANGED <<selectedPolyp, gesture, page, mode, env, loads, deletes,
                       framesFetch, db>>

\* --------------------------------------------- handlers without a token
\* Without a token the Store stays empty, so the page itself never reaches
\* saveAnnotation or handleDeletePolyp; the calls below run the two functions
\* with no token present.
SaveSignedOut ==
    \E polyp \in StoredPolyps :
        /\ ~authToken
        /\ SaveAnnotations(<<polyp>>)
        /\ UserEvent("saveAnnotation", polyp.id)
        /\ UNCHANGED <<polyps, selectedPolyp, gesture, page, mode, env, loads, deletes,
                       framesFetch, db>>

DeleteSignedOut ==
    \E polypId \in 1..MaxClock :
        /\ ~authToken
        /\ HandleDeletePolyp(polypId)
        /\ UserEvent("handleDeletePolyp", polypId)
        /\ UNCHANGED <<polyps, selectedPolyp, gesture, page, mode, saving, env, saves,
                       loads, framesFetch, db>>

\* ------------------------------------- pointer handlers in continuous mode
\* The three pointer handlers are props of the FrameViewer only; the calls below
\* run them while the mode is continuous, with the gesture state frame mode left.
PressInContinuous ==
    \E pt \in Points : PageShown /\ ~isFrameAnnotationMode /\ handleMouseDown(pt)

MoveInContinuous ==
    \E pt \in Points : PageShown /\ ~isFrameAnnotationMode /\ handleMouseMove(pt)

ReleaseInContinuous == PageShown /\ ~isFrameAnnotationMode /\ handleMouseUp

\* ------------------------------------------------------------- seekFrame
\* The ref the page creates with useRef(null) is handed to no element: the
\* <video> is attached to the ref the VideoPlayer creates itself.
videoRef == [current |-> Null]

\* seekFrame(direction)
seekFrame(direction) ==
    /\ IF isFrameAnnotationMode
       THEN /\ currentFrameIndex' =
                   Max(0, Min(currentFrameIndex + direction, Len(frames) - 1))
            /\ LoadAnnotations(frames, currentFrameIndex', TRUE)
            /\ UNCHANGED currentTime
       ELSE /\ IF videoRef.current # Null
               THEN currentTime' = Max(cropStart, Min(currentTime + direction, cropEnd))
               ELSE UNCHANGED currentTime
            /\ UNCHANGED <<currentFrameIndex, loads, error>>
    /\ UserEvent("seekFrame", direction)
    /\ UNCHANGED <<frames, isFrameAnnotationMode, polyps, selectedPolyp, gesture,
                   videoMetadata, loading, isPlaying, cropStart, cropEnd, saving, env,
                   saves, deletes, framesFetch, db>>

\* seekFrame is a prop of the VideoPlayer only; the call below runs it in frame
\* mode
SeekFrame ==
    \E direction \in {-1, 1} : PageShown /\ isFrameAnnotationMode /\ seekFrame(direction)

NextApi ==
    \/ Next
    \/ EndDeleted
    \/ DragDeleted
    \/ EndOffFrame
    \/ SaveSignedOut
    \/ DeleteSignedOut
    \/ PressInContinuous
    \/ MoveInContinuous
    \/ ReleaseInContinuous
    \/ SeekFrame

SpecApi == Init /\ [][NextApi]_vars

\* ------------------------------------------------------------ VideoPlayer
\* The VideoPlayer is mounted in continuous mode.
VideoPlayerShown == PageShown /\ ~isFrameAnnotationMode

\* the play / pause button: togglePlay; the effect of the VideoPlayer then calls
\* play() or pause() on its <video>
TogglePlay ==
    /\ VideoPlayerShown
    /\ isPlaying' = ~isPlaying
    /\ UserEvent("togglePlay", Null)
    /\ UNCHANGED <<polyps, selectedPolyp, gesture, videoMetadata, loading, cropStart,
                   cropEnd, currentTime, error, mode, saving, env, net>>

\* handleTimeUpdate(), for the position the <video> reports
handleTimeUpdate ==
    IF videoRef.current = Null THEN UNCHANGED isPlaying
    ELSE IF currentTime' >= cropEnd THEN isPlaying' = FALSE
    ELSE UNCHANGED isPlaying

\* the <video> plays on by one frame period and fires timeupdate
TimeUpdate ==
    /\ VideoPlayerShown
    /\ isPlaying
    /\ currentTime < MaxTime
    /\ currentTime' = currentTime + 1
    /\ handleTimeUpdate
    /\ Note("timeUpdate", Null)
    /\ UNCHANGED <<polyps, selectedPolyp, gesture, videoMetadata, loading, cropStart,
                   cropEnd, error, mode, saving, env, net>>

\* the skip-back and skip-forward buttons of the VideoPlayer
SeekButtons ==
    \E direction \in {-1, 1} : VideoPlayerShown /\ seekFrame(direction)

NextPlayer ==
    \/ FetchVideoDataOk
    \/ FetchVideoDataFail
    \/ TogglePlay
    \/ TimeUpdate
    \/ SeekButtons

SpecPlayer == Init /\ [][NextPlayer]_vars

\* --------------------------------------------------- durations of videos
\* the parts of the duration strings: two digits, a digit followed by a
\* letter, a letter, and the empty part
PartStrings ==
    { <<"0", "0">>, <<"0", "1">>, <<"3", "0">>, <<"1", "a">>, <<"a">>, <<>> }

RECURSIVE JoinParts(_)
JoinParts(ps) ==
    IF Len(ps) = 1 THEN ps[1] ELSE ps[1] \o <<":">> \o JoinParts(Tail(ps))

\* the duration fields of the answers: strings of one to MaxParts parts,
\* numbers, and a value that is neither
MetadataDurations ==
    { JsString(JoinParts(ps)) : ps \in UNION { [1..n -> PartStrings] : n \in 1..MaxParts } }
        \cup { JsNumber(n) : n \in 0..MaxTime } \cup { JsBoolean(TRUE) }

FetchAnyVideoData == \E duration \in MetadataDurations : StoreVideoData(duration)

NextParse ==
    \/ FetchAnyVideoData
    \/ FetchVideoDataFail

SpecParse == Init /\ [][NextParse]_vars

\* ------------------------------------------------- a video of many frames
\* The frame numbers the page writes are currentFrameIndex + 1, so they grow
\* with the length of the video.  SpecFrames starts where "Annotate Frames" on a
\* video of MaxFrame frames and a walk with "Next" lead: frame mode, one of the
\* last frames shown, its annotations (none yet) loaded.
LongFrames == [k \in 1..MaxFrame |-> 100 + k]

InitFrames ==
    /\ frames = LongFrames
    /\ polyps = <<>>
    /\ selectedPolyp = Null
    /\ isResizing = FALSE
    /\ isDragging = FALSE
    /\ dragStart = [x |-> 0, y |-> 0]
    /\ isDrawing = FALSE
    /\ drawingStart = [x |-> 0, y |-> 0]
    /\ currentDrawing = NoRect
    /\ videoMetadata = <<[duration |-> JsNumber(MaxTime)]>>
    /\ loading = FALSE
    /\ error = ""
    /\ isFrameAnnotationMode = TRUE
    /\ currentFrameIndex \in (MaxFrame - 4)..(MaxFrame - 1)
    /\ saving = FALSE
    /\ authToken = TRUE
    /\ clock = 1
    /\ pointer = [x |-> 0, y |-> 0]
    /\ saves = EmptyBag
    /\ loads = EmptyBag
    /\ deletes = EmptyBag
    /\ framesFetch = 0
    /\ db = {}
    /\ events = 0
    /\ last = [op |-> "loadOk", id |-> FrameIdAt(frames, currentFrameIndex)]
    /\ isPlaying = FALSE
    /\ cropStart = 0
    /\ cropEnd = MaxTime
    /\ currentTime = 0

NextFrames ==
    \/ HandleMouseDown
    \/ HandleMouseUp
    \/ EndPolyp
    \/ SaveOk
    \/ PreviousFrame
    \/ NextFrame
    \/ LoadOk

SpecFrames == InitFrames /\ [][NextFrames]_vars

\* ------------------------------------------- annotations of an earlier session
\* loadAnnotations takes position and size from the records as they are, and the
\* records were written on the surface of the session that drew them.  SpecStored
\* starts in frame mode on the first frame, after the reload has brought two
\* polyps of that frame: one of the minimum size or larger than the surface,
\* and a second one of the minimum size.
InitStored ==
    \E polyp \in StoredPolyps :
        /\ frames = <<11, 12>>
        /\ polyps = <<polyp, OtherPolyp>>
        /\ selectedPolyp = Null
        /\ isResizing = FALSE
        /\ isDragging = FALSE
        /\ dragStart = [x |-> 0, y |-> 0]
        /\ isDrawing = FALSE
        /\ drawingStart = [x |-> 0, y |-> 0]
        /\ currentDrawing = NoRect
        /\ videoMetadata = <<[duration |-> JsNumber(MaxTime)]>>
        /\ loading = FALSE
        /\ error = ""
        /\ isFrameAnnotationMode = TRUE
        /\ currentFrameIndex = 0
        /\ saving = FALSE
        /\ authToken = TRUE
        /\ clock = 1
        /\ pointer = [x |-> 0, y |-> 0]
        /\ saves = EmptyBag
        /\ loads = EmptyBag
        /\ deletes = EmptyBag
        /\ framesFetch = 0
        /\ db = {AnnotationData(polyp), AnnotationData(OtherPolyp)}
        /\ events = 0
        /\ last = [op |-> "loadOk", id |-> 11]
        /\ isPlaying = FALSE
        /\ cropStart = 0
        /\ cropEnd = MaxTime
        /\ currentTime = 0

NextStored ==
    \/ StartDrag
    \/ StartResize
    \/ HandleMouseMove
    \/ HandleMouseUp
    \/ SaveOk

SpecStored == InitStored /\ [][NextStored]_vars

\* ------------------------------------------------ selection and deletion
\* SpecDelete starts as SpecStored does, with two polyps of the minimum size in
\* the Store, and follows selection, deletion, the mode switch and navigation.
InitDelete ==
    /\ InitStored
    /\ polyps[1].position = [x |-> 0, y |-> 0]
    /\ polyps[1].size = [width |-> MinSize, height |-> MinSize]

NextDelete ==
    \/ SelectPolyp
    \/ DeletePolyp
    \/ KeyDelete
    \/ DeleteOk
    \/ DeleteFail
    \/ ExitFrameMode
    \/ EnterFrameMode
    \/ FetchFramesOk
    \/ PreviousFrame
    \/ NextFrame
    \/ LoadOk

SpecDelete == InitDelete /\ [][NextDelete]_vars

\* ================================================================ properties
\* a step that is the event op of the user
Event(op) == last'.op = op /\ events' = events + 1

\* a step that is the completion op of a network call
Completion(op) == last'.op = op /\ events' = events

Inside(polyp) ==
    /\ polyp.position.x >= 0
    /\ polyp.position.y >= 0
    /\ polyp.position.x + polyp.size.width <= W
    /\ polyp.position.y + polyp.size.height <= H

\* C1: in frame mode, a release that ends a drawing pressed at p = drawingStart
\* with the pointer last seen at q = pointer, on frame index i, appends exactly
\* one polyp to the Store: position (min(p.x,q.x), min(p.y,q.y)), size
\* (|q.x-p.x|, |q.y-p.y|), startFrame i+1, endFrame null, frame the id of the
\* frame at index i, no notes.
C1_DrawAddsNormalisedPolyp ==
    [][ (Event("draw") /\ isFrameAnnotationMode) =>
          polyps' = Append(polyps,
              [ id |-> last'.id,
                frame |-> frames[currentFrameIndex + 1],
                notes |-> "",
                startFrame |-> currentFrameIndex + 1,
                endFrame |-> Null,
                position |-> [ x |-> Min(drawingStart.x, pointer.x),
                               y |-> Min(drawingStart.y, pointer.y) ],
                size |-> [ width |-> Abs(pointer.x - drawingStart.x),
                           height |-> Abs(pointer.y - drawingStart.y) ] ]) ]_vars

\* a polyp drawn towards the top-left of its press point is the last of the Store
C1_Witness ==
    /\ last.op = "draw"
    /\ Len(polyps) > 0
    /\ polyps[Len(polyps)].id = last.id
    /\ polyps[Len(polyps)].size.width > 0
    /\ polyps[Len(polyps)].size.height > 0
    /\ polyps[Len(polyps)].position.x < drawingStart.x

\* C2: "End" on an open polyp while the frame index is i sets the endFrame of
\* that polyp to i+1 and leaves every polyp of another id as it was.
C2_EndSetsEndFrame ==
    [][ Event("end") =>
          /\ Len(polyps') = Len(polyps)
          /\ \A k \in 1..Len(polyps) :
                IF polyps[k].id = last'.id
                THEN polyps[k].endFrame = Null =>
                        polyps'[k] = [polyps[k] EXCEPT !.endFrame = currentFrameIndex + 1]
                ELSE polyps'[k] = polyps[k] ]_vars

\* a polyp has just been ended next to a polyp of another id
C2_Witness ==
    /\ last.op = "end"
    /\ \E k, j \in 1..Len(polyps) :
          /\ polyps[k].id = last.id
          /\ polyps[k].endFrame = currentFrameIndex + 1
          /\ polyps[j].id # last.id

\* C3: a drag move or a resize move leaves the position and the size of every
\* closed polyp (endFrame set) as they were.
C3_ClosedGeometryFrozen ==
    [][ (Event("dragMove") \/ Event("resizeMove")) =>
          \A k \in 1..Len(polyps) :
              polyps[k].endFrame # Null =>
                  /\ polyps'[k].position = polyps[k].position
                  /\ polyps'[k].size = polyps[k].size ]_vars

\* C4: every polyp of the Store lies inside the surface W x H.
C4_InsideSurface == \A k \in 1..Len(polyps) : Inside(polyps[k])

\* C5: every polyp of the Store has a positive width and a positive height.
C5_PositiveSize ==
    \A k \in 1..Len(polyps) : polyps[k].size.width > 0 /\ polyps[k].size.height > 0

\* C6: a resize move leaves the resized polyp at least MinSize wide and high
\* and inside the surface.
C6_ResizeWithinBounds ==
    [][ Event("resizeMove") =>
          \A k \in 1..Len(polyps') :
              polyps'[k].id = last'.id =>
                  /\ polyps'[k].size.width >= MinSize
                  /\ polyps'[k].size.height >= MinSize
                  /\ polyps'[k].position.x + polyps'[k].size.width <= W
                  /\ polyps'[k].position.y + polyps'[k].size.height <= H ]_vars

\* C7: when the delete of a polyp takes effect, the polyp leaves the Store and,
\* if it is the selected one, the selection becomes none.
C7_DeleteClearsSelection ==
    [][ Completion("deleteOk") =>
          /\ last'.id \notin Ids(polyps')
          /\ (selectedPolyp = last'.id => selectedPolyp' = Null) ]_vars

C9_ReloadKeepsPolyps ==
    [][ (last.op = "fetchFramesOk" /\ Completion("loadOk")) =>
          Ids(polyps) \subseteq Ids(polyps') ]_vars

\* C10: in continuous mode neither the overlay nor the sidebar shows a polyp
\* whose endFrame is set.
C10_ContinuousViewOpenOnly ==
    ~isFrameAnnotationMode =>
        /\ \A k \in 1..Len(OverlayPolyps) : OverlayPolyps[k].endFrame = Null
        /\ \A k \in 1..Len(SidebarPolyps) : SidebarPolyps[k].endFrame = Null

\* continuous mode with a closed polyp in the Store
C10_Witness ==
    /\ ~isFrameAnnotationMode
    /\ PageShown
    /\ \E k \in 1..Len(polyps) : polyps[k].endFrame # Null

\* the message saveAnnotation sets when createOrUpdateAnnotation fails
SaveFailed == error = "Failed to save annotation: Failed to save annotation."

UniqueIds == \A j, k \in 1..Len(polyps) : polyps[j].id = polyps[k].id => j = k

\* C11: after a failed save the polyps stay in the Store and can still be
\* edited: while the run may go on and the save queue has room, "End" is
\* offered for the polyps of the current frame.
C11_FailedSaveKeepsEditing ==
    ( /\ SaveFailed
      /\ isFrameAnnotationMode
      /\ Len(SidebarPolyps) > 0
      /\ events < MaxEvents
      /\ BagCardinality(saves) < MaxInFlight ) => ENABLED EndPolyp

\* C12: no two saves of the same polyp are in flight at once (stated for a
\* Store whose ids are unique).
C12_OneSaveInFlightPerPolyp ==
    UniqueIds =>
        \A a, b \in BagToSet(saves) :
            a.polyp_id = b.polyp_id => (a = b /\ CopiesIn(a, saves) = 1)

\* C13: the completion of a save, successful or failed, leaves every polyp of
\* the Store as it was.
C13_SaveCompletionKeepsStore ==
    [][ (Completion("saveOk") \/ Completion("saveFail")) => polyps' = polyps ]_vars

\* a save has just succeeded for a polyp whose geometry in the Store is no
\* longer the one that was saved
C13_Witness ==
    /\ last.op = "saveOk"
    /\ \E k \in 1..Len(polyps) :
          /\ polyps[k].id = last.id
          /\ \E r \in db :
                /\ r.polyp_id = last.id
                /\ r.frame_id = polyps[k].frame
                /\ <<r.x1, r.y1, r.width, r.height>> #
                     <<polyps[k].position.x, polyps[k].position.y,
                       polyps[k].size.width, polyps[k].size.height>>

\* C14: once no call is outstanding and no save has failed, the service holds
\* for every polyp of the Store the wire record of its state in the Store.
C14_QuiescentStoreIsPersisted ==
    ( /\ authToken
      /\ error = ""
      /\ saves = EmptyBag
      /\ loads = EmptyBag
      /\ deletes = EmptyBag
      /\ UniqueIds ) =>
        \A k \in 1..Len(polyps) : AnnotationData(polyps[k]) \in db

\* C15: no two polyps of the Store have the same id.
C15_UniqueIds == UniqueIds

\* C16: every polyp of the Store whose endFrame is set has endFrame >= startFrame.
C16_EndNotBeforeStart ==
    \A k \in 1..Len(polyps) :
        polyps[k].endFrame # Null => polyps[k].endFrame >= polyps[k].startFrame

\* a polyp drawn on the second frame has just been ended there
C16_Witness ==
    /\ last.op = "end"
    /\ currentFrameIndex = 1
    /\ \E k \in 1..Len(polyps) :
          /\ polyps[k].id = last.id
          /\ polyps[k].startFrame = 2
          /\ polyps[k].endFrame = 2

\* C17: when the reload for the current frame completes, the Store is exactly
\* the polyps mapped from the records the service returned for that frame.
C17_ReloadReplacesStore ==
    [][ (Completion("loadOk") /\ isFrameAnnotationMode /\ last'.id = currentFrameId) =>
          polyps' = MappedPolyps(currentFrameId) ]_vars

\* the reload for the second frame has completed and brought polyps
C17_Witness ==
    /\ last.op = "loadOk"
    /\ isFrameAnnotationMode
    /\ currentFrameIndex = 1
    /\ last.id = currentFrameId
    /\ loads = EmptyBag
    /\ Len(polyps) > 0

\* C18: in frame mode the frame index is never negative and, with a non-empty
\* frame list, never beyond the last frame.
C18_IndexInRange ==
    isFrameAnnotationMode =>
        /\ currentFrameIndex >= 0
        /\ (Len(frames) > 0 => currentFrameIndex <= Len(frames) - 1)

\* C19: frame mode is entered only with a non-empty frame list; a failed fetch
\* and an empty answer leave the mode, the frame list and the index as they were.
C19_EnterNeedsFrames ==
    [][ /\ (isFrameAnnotationMode' /\ ~isFrameAnnotationMode) => Len(frames') > 0
        /\ ( Completion("fetchFramesFail")
             \/ (Completion("fetchFramesOk") /\ Len(frames') = 0) ) =>
               UNCHANGED <<isFrameAnnotationMode, frames, currentFrameIndex>> ]_vars

Posted == { r \in BagToSet(saves') : CopiesIn(r, saves') > CopiesIn(r, saves) }

\* C21: every request posted by a step is the wire form of a polyp a of the
\* Store (before or after the step): x1, y1 the position of a, x2 = x1 + width,
\* y2 = y1 + height, start_time = startFrame / R, end_time = endFrame / R when
\* endFrame is set and none otherwise.
C21_WireMapping ==
    [][ \A r \in Posted :
          \E a \in { polyps[k] : k \in 1..Len(polyps) }
                     \cup { polyps'[k] : k \in 1..Len(polyps') } :
              /\ r.polyp_id = a.id
              /\ r.frame_id = a.frame
              /\ r.x1 = a.position.x
              /\ r.y1 = a.position.y
              /\ r.x2 = r.x1 + a.size.width
              /\ r.y2 = r.y1 + a.size.height
              /\ r.start_time = DoubleDiv(a.startFrame, R)
              /\ r.end_time = IF a.endFrame # Null THEN DoubleDiv(a.endFrame, R)
                              ELSE NoTime ]_vars

\* a request in flight for a closed polyp of non-zero size away from the origin
C21_Witness ==
    \E r \in BagToSet(saves) :
        /\ r.end_time # NoTime
        /\ r.width > 0
        /\ r.x1 > 0

\* C22: a polyp whose saved record is the service's record comes back from a
\* reload with the startFrame and the endFrame it has: floor((f / R) * R) = f
\* for both.
C22_SaveReloadKeepsFrames ==
    \A k \in 1..Len(polyps) :
        AnnotationData(polyps[k]) \in db =>
            LET reloaded == MappedPolyp(AnnotationData(polyps[k]), polyps[k].frame)
            IN  /\ reloaded.startFrame = polyps[k].startFrame
                /\ reloaded.endFrame = polyps[k].endFrame

\* C23: in continuous mode a seek by direction moves the playback position to
\* min(max(position + direction / R, cropStart), cropEnd) (positions counted
\* in periods of 1/R second).
C23_SeekMovesPosition ==
    [][ (Event("seekFrame") /\ ~isFrameAnnotationMode) =>
          currentTime' = Min(Max(currentTime + last'.id, cropStart), cropEnd) ]_vars

\* C24: a drag move leaves the dragged polyp inside the surface, and clamping
\* its new position again gives the same position.
C24_DragClampContained ==
    [][ Event("dragMove") =>
          \A k \in 1..Len(polyps') :
              polyps'[k].id = last'.id =>
                  /\ Inside(polyps'[k])
                  /\ polyps'[k].position.x =
                        Max(0, Min(polyps'[k].position.x, W - polyps'[k].size.width))
                  /\ polyps'[k].position.y =
                        Max(0, Min(polyps'[k].position.y, H - polyps'[k].size.height)) ]_vars

\* C25: the request that "End" posts for a polyp carries the endFrame just
\* written to the Store: end_time = (currentFrameIndex + 1) / R.
C25_EndPostsEndedPolyp ==
    [][ Event("end") =>
          \A r \in Posted :
              r.polyp_id = last'.id =>
                  r.end_time = DoubleDiv(currentFrameIndex + 1, R) ]_vars

\* C26: the note button with a non-empty answer sets the notes of the polyp in
\* the Store to the answer, and the request it posts carries the answer as its
\* content; with an empty answer nothing changes and nothing is posted.
C26_AddNotePostsNote ==
    [][ Event("addNote") =>
          \/ polyps' = polyps /\ Posted = {}
          \/ \E note \in Notes :
                /\ \A k \in 1..Len(polyps') :
                      polyps'[k].id = last'.id => polyps'[k].notes = note
                /\ \A r \in Posted :
                      r.polyp_id = last'.id => r.content = note ]_vars

\* C27: a resize move commits the new size to the Store and, with a token,
\* posts a request that carries the resized polyp.
C27_ResizeMovePosts ==
    [][ (Event("resizeMove") /\ authToken) =>
          \A k \in 1..Len(polyps') :
              polyps'[k].id = last'.id =>
                  \E r \in Posted :
                      /\ r.polyp_id = last'.id
                      /\ r.width = polyps'[k].size.width
                      /\ r.height = polyps'[k].size.height ]_vars

\* C28: in frame mode a release (or the pointer leaving the viewer) in the
\* Drawing state leaves the gesture state idle and the preview rectangle
\* cleared.
C28_ReleaseEndsDrawing ==
    [][ ( /\ isFrameAnnotationMode
          /\ isDrawing /\ ~isDragging /\ ~isResizing
          /\ (Event("draw") \/ Event("mouseUp")) ) =>
          /\ ~isDrawing' /\ ~isDragging' /\ ~isResizing'
          /\ currentDrawing' = NoRect ]_vars

C30_MoveChangesOnlySelected ==
    [][ (Event("dragMove") \/ Event("resizeMove")) =>
          /\ last'.id = selectedPolyp
          /\ Len(polyps') = Len(polyps)
          /\ \A k \in 1..Len(polyps) :
                IF polyps[k].id # selectedPolyp
                THEN polyps'[k] = polyps[k]
                ELSE /\ polyps'[k].id = polyps[k].id
                     /\ polyps'[k].frame = polyps[k].frame
                     /\ polyps'[k].notes = polyps[k].notes
                     /\ polyps'[k].startFrame = polyps[k].startFrame
                     /\ polyps'[k].endFrame = polyps[k].endFrame
                     /\ Event("dragMove") => polyps'[k].size = polyps[k].size
                     /\ Event("resizeMove") => polyps'[k].position = polyps[k].position ]_vars

\* a resize move has just changed the size of a polyp that a drag had moved
\* before, next to a polyp of another id: neither its position nor its size is
\* the one of its record
C30_Witness ==
    /\ last.op = "resizeMove"
    /\ \E j, k \in 1..Len(polyps) :
          /\ polyps[j].id # last.id
          /\ polyps[k].id = last.id
          /\ \E r \in db :
                /\ r.polyp_id = last.id
                /\ r.frame_id = polyps[k].frame
                /\ <<r.x1, r.y1>> # <<polyps[k].position.x, polyps[k].position.y>>
                /\ <<r.width, r.height>> # <<polyps[k].size.width, polyps[k].size.height>>

\* C31: with no token present no step sends a call to the service; a save, a
\* delete and a reload that is due each set their error message and leave the
\* Store and the selection as they were.
C31_NoTokenNoCall ==
    [][ ~authToken =>
          /\ saves' = saves /\ loads' = loads /\ deletes' = deletes
          /\ Event("saveAnnotation") =>
                /\ error' = "Authentication required to save annotations."
                /\ UNCHANGED <<polyps, selectedPolyp>>
          /\ Event("handleDeletePolyp") =>
                /\ error' = "Authentication required to delete annotations."
                /\ UNCHANGED <<polyps, selectedPolyp>>
          /\ ( /\ isFrameAnnotationMode'
               /\ FrameIdAt(frames', currentFrameIndex') # Null
               /\ <<currentFrameIndex', isFrameAnnotationMode',
                    FrameIdAt(frames', currentFrameIndex')>>
                    # <<currentFrameIndex, isFrameAnnotationMode, currentFrameId>> ) =>
                /\ error' = "Authentication required to load annotations."
                /\ UNCHANGED <<polyps, selectedPolyp>> ]_vars

\* a delete has just been refused for want of a token, in frame mode on a frame
C31_Witness ==
    /\ ~authToken
    /\ last.op = "handleDeletePolyp"
    /\ isFrameAnnotationMode
    /\ currentFrameId # Null
    /\ error = "Authentication required to delete annotations."

\* C32: leaving frame mode keeps the Store, and while the mode is continuous
\* neither the overlay nor the sidebar shows a polyp that carries a frame.
C32_ContinuousViewHidesFramePolyps ==
    /\ [][Event("exitFrameMode") => polyps' = polyps]_vars
    /\ [](~isFrameAnnotationMode =>
            /\ \A k \in 1..Len(OverlayPolyps) : OverlayPolyps[k].frame = Null
            /\ \A k \in 1..Len(SidebarPolyps) : SidebarPolyps[k].frame = Null)

\* C33: the saving flag is set exactly while at least one
\* createOrUpdateAnnotation call is outstanding.
C33_SavingIffOutstanding == saving <=> BagCardinality(saves) > 0

\* C34: the completion of a reload for a frame that is no longer the current
\* one leaves the Store as it is.
C34_StaleReloadIgnored ==
    [][(Completion("loadOk") /\ last'.id # currentFrameId) => polyps' = polyps]_vars

\* C35: the completion of the reload for the current frame keeps every polyp
\* of that frame that the Store holds and the fetched set does not contain.
C35_ReloadKeepsLocalPolyps ==
    [][ (Completion("loadOk") /\ last'.id = currentFrameId) =>
          \A k \in 1..Len(polyps) :
              ( /\ polyps[k].frame = currentFrameId
                /\ polyps[k].id \notin Ids(MappedPolyps(currentFrameId)) ) =>
                  polyps[k].id \in Ids(polyps') ]_vars

\* C36: every delete request sent for a polyp of the Store carries the frame
\* that polyp is anchored to.
C36_DeleteCarriesPolypFrame ==
    [][ \A d \in BagToSet(deletes') :
          CopiesIn(d, deletes') > CopiesIn(d, deletes) =>
              \A k \in 1..Len(polyps) :
                  polyps[k].id = d.polyp_id => d.frame_id = polyps[k].frame ]_vars

C38_SelectionInStore == selectedPolyp = Null \/ HasPolyp(selectedPolyp)

\* C39: at most one of the gesture flags isDrawing, isDragging and isResizing
\* is set.
C39_OneGestureFlag ==
    /\ ~(isDrawing /\ isDragging)
    /\ ~(isDrawing /\ isResizing)
    /\ ~(isDragging /\ isResizing)

\* a non-empty sequence of digits
Numeric(str) == str # <<>> /\ \A k \in 1..Len(str) : IsDigit(str[k])

\* the seconds a duration stands for: H*3600 + M*60 + S for three numeric
\* parts, M*60 + S for two, the number for a number or one numeric part, and 0
\* for everything else
ExpectedSeconds(duration) ==
    IF duration.type = "number" THEN duration.value
    ELSE IF duration.type # "string" THEN 0
    ELSE LET parts == Split(duration.value)
         IN  IF \E k \in 1..Len(parts) : ~Numeric(parts[k]) THEN 0
             ELSE IF Len(parts) = 3
             THEN Decimal(parts[1]) * 3600 + Decimal(parts[2]) * 60 + Decimal(parts[3])
             ELSE IF Len(parts) = 2 THEN Decimal(parts[1]) * 60 + Decimal(parts[2])
             ELSE IF Len(parts) = 1 THEN Decimal(parts[1])
             ELSE 0

\* C40: the duration the page takes from parseDuration is the number of seconds
\* the duration field stands for, 0 for a field of no recognised form, and in
\* every case a number.
C40_ParseDuration ==
    (videoMetadata # <<>> /\ TruthyDuration(videoMetadata[1].duration)) =>
        /\ cropEnd # NaN
        /\ cropEnd = ExpectedSeconds(videoMetadata[1].duration)

====
